---- MODULE Spec2Model ----
(***************************************************************************)
(* Model of the waves-ui Timeline hub (es6/core/timeline.js, the later of  *)
(* the two class definitions in the file) and of CenteredZoomState         *)
(* (states/centered-zoom-state.js, src/unnamed/part_000).                  *)
(*                                                                         *)
(* Everything runs synchronously in one JavaScript turn, so every public   *)
(* entry point (an assignment to Timeline.state, an event delivered by an  *)
(* interaction module) is one action.  The calls made inside one entry     *)
(* point are recorded, in call order, in the variable `log`.               *)
(*                                                                         *)
(* Numbers: stretchRatio is stored in hundredths (the code only ever adds  *)
(* e.dy / 100 to it), times and offsets are exact rationals [n, d].        *)
(*                                                                         *)
(* Specifications: Spec (event dispatch, state switching, centered zoom),  *)
(* SpecLayers (addLayer / removeLayer), SpecTracks (createTrack, add and   *)
(* the track lookups), SpecContext (the time-context accessors).           *)
(***************************************************************************)
EXTENDS Integers, Sequences, FiniteSets, TLC

VARIABLES
  _state,      \* Timeline._state: the active interaction state or NULL
  mouseDown,   \* CenteredZoomState.mouseDown of the one CenteredZoomState instance
  ctx,         \* view -> time context [stretchRatio (hundredths), offset (rational)]
  log,         \* calls made by the last entry point, in call order
  error,       \* exception raised by the last entry point ("none" if it returned)
  assigned,    \* history: argument of the last assignment to Timeline.state that returned
  gesture,     \* history: [down: CenteredZoomState got mousedown since its last enter() and
               \*  no mouseup since, cut: its exit() ran during such a gesture, no mousedown since]
  steps,       \* number of entry points run so far
  tracks,        \* Timeline._tracks: the Track objects of the timeline, in order
  trackById,     \* Timeline._trackById: track id -> Track object or UNDEF
  groupedLayers, \* Timeline._groupedLayers: group id -> [has, layers]
  trackLayers,   \* Track.layers of every Track object
  layerCtx,      \* layer.timeContext of every layer (NoCtx when not bound)
  created,       \* number of LayerTimeContext objects created so far
  interactions,  \* number of Surface interactions created so far
  members,       \* history: group id -> the layers added to the group by
                 \*  addLayer and not given to removeLayer since
  root,          \* Timeline.timeContext: [offset, zoom, pixelsPerSecond]
  call,          \* the last public call: [op, args]
  ret,           \* what the last public call returned
  lineData,         \* the data array the host passes to Line.update
  renderingContext, \* the rendering context passed to Line.update
  instructions      \* the points of the 'd' attribute of the line's path

dispatchVars == <<_state, mouseDown, ctx, log, assigned, gesture>>
lineVars == <<lineData, renderingContext, instructions>>
timelineVars ==
  <<tracks, trackById, groupedLayers, trackLayers, layerCtx, created, interactions,
    members>>

vars ==
  <<_state, mouseDown, ctx, log, error, assigned, gesture, steps, tracks,
    trackById, groupedLayers, trackLayers, layerCtx, created, interactions,
    members, root, call, ret, lineData, renderingContext, instructions>>

\* ------------------------------------------------------------------ bounds
MaxSteps == 4
MaxLayerOps == 4
MaxPoints == 3

\* --------------------------------------------------------------- constants
NULL == "null"
pixelsPerSecond == 100
Hundredths == 100
MinStretch == 1

\* ------------------------------------------------------ rational arithmetic
Abs(n) == IF n < 0 THEN -n ELSE n

RECURSIVE GCD(_, _)
GCD(a, b) == IF b = 0 THEN a ELSE GCD(b, a % b)

Sign(n) == IF n < 0 THEN -1 ELSE IF n > 0 THEN 1 ELSE 0

\* n / d in lowest terms; a zero divisor gives the JavaScript results
\* +-Infinity ([+-1, 0]) and NaN ([0, 0])
Frac(n, d) ==
  IF d = 0 THEN [n |-> Sign(n), d |-> 0]
  ELSE LET s == IF d < 0 THEN -1 ELSE 1
           g == GCD(Abs(n), Abs(d))
       IN  [n |-> (s * n) \div g, d |-> (s * d) \div g]

\* sums over the least common denominator, to keep the integers small
RAdd(a, b) ==
  IF a.d = 0 /\ b.d = 0 THEN [n |-> IF a.n = b.n THEN a.n ELSE 0, d |-> 0]
  ELSE IF a.d = 0 THEN a
  ELSE IF b.d = 0 THEN b
  ELSE LET g == GCD(a.d, b.d)
       IN  Frac(a.n * (b.d \div g) + b.n * (a.d \div g), a.d * (b.d \div g))

RNeg(a) == [n |-> -a.n, d |-> a.d]

RSub(a, b) == RAdd(a, RNeg(b))

Max(a, b) == IF a > b THEN a ELSE b

\* --------------------------------------------------------- interaction states
\* One CenteredZoomState instance and two host-defined BaseState subclasses:
\* StateA.exit() and StateB.enter() synchronously trigger an interaction
\* module, which delivers HookEvent to the timeline.
CZ == "centeredZoom"
StateA == "stateA"
StateB == "stateB"
States == {CZ, StateA, StateB}

\* ------------------------------------------------------------------- events
Ev(type, source, x, dx, dy, clientX, clientY) ==
  [type |-> type, source |-> source, x |-> x, dx |-> dx, dy |-> dy,
   clientX |-> clientX, clientY |-> clientY]

NoEvent == Ev("none", "none", 0, 0, 0, 0, 0)
HookEvent == Ev("keyup", "keyboard", 0, 0, 0, 0, 0)

ClientXs == {0, 7, 12, 30}
PointerXs == {0, 3}
Dxs == {0, 1}
Dys == {-10, -1, 2}

Events ==
       { Ev("mousedown", "surface", 0, 0, 0, cx, 5) : cx \in ClientXs }
  \cup { Ev("mouseup", "surface", 0, 0, 0, 7, 5) }
  \cup { Ev("mousemove", "surface", x, dx, dy, 7, 5) :
           x \in PointerXs, dx \in Dxs, dy \in Dys }
  \cup { Ev("keydown", "keyboard", 0, 0, 0, 0, 0) }
  \cup { Ev("wheel", "surface", 3, 1, 2, 7, 5) }

\* ------------------------------------------------------------------- layers
\* this.layers, in the timeline's layer order, with each layer's
\* $el.getBoundingClientRect() and params.hittable.
LayerOrder == <<"l1", "l2", "l3">>

LayerBox ==
  [l1 |-> [left |-> 0, right |-> 10, top |-> 0, bottom |-> 10, hittable |-> TRUE],
   l2 |-> [left |-> 5, right |-> 15, top |-> 0, bottom |-> 10, hittable |-> TRUE],
   l3 |-> [left |-> 0, right |-> 40, top |-> 0, bottom |-> 10, hittable |-> FALSE]]

\* A hit-layer value: JavaScript null, or an array of layers.
NullHit == [isNull |-> TRUE, layers |-> <<>>]
ArrayHit(ls) == [isNull |-> FALSE, layers |-> ls]

\* variant: a pointer on the edge of the rectangle counts as inside
HitsEdgesIncluded(l, e) ==
  /\ LayerBox[l].hittable
  /\ e.clientX >= LayerBox[l].left /\ e.clientX <= LayerBox[l].right
  /\ e.clientY >= LayerBox[l].top /\ e.clientY <= LayerBox[l].bottom

Hits(l, e) ==
  /\ LayerBox[l].hittable
  /\ e.clientX > LayerBox[l].left /\ e.clientX < LayerBox[l].right
  /\ e.clientY > LayerBox[l].top /\ e.clientY < LayerBox[l].bottom

getHitLayers(e) == ArrayHit(SelectSeq(LayerOrder, LAMBDA l : Hits(l, e)))

\* variant: the layers are hit-tested whatever the source of the event
hitLayersAlwaysTested(e) == getHitLayers(e)

hitLayersOf(e) == IF e.source = "surface" THEN getHitLayers(e) ELSE NullHit

\* ------------------------------------------------------------ time contexts
Views == {"v1", "v2"}

InitCtx ==
  [v1 |-> [stretchRatio |-> 4, offset |-> Frac(0, 1)],
   v2 |-> [stretchRatio |-> 2, offset |-> Frac(2, 1)]]

\* timeContext.xScale.invert(x): pixel -> time, x / (pixelsPerSecond * zoom) + offset
pixelToTime(tc, x) ==
  RAdd(Frac(Hundredths * x, pixelsPerSecond * tc.stretchRatio), tc.offset)

\* variant: the Math.max line is missing
newStretchRatioNoFloor(sr, dy) == sr + dy

\* stretchRatio += e.dy / 100; stretchRatio = Math.max(stretchRatio, 0.01)
newStretchRatio(sr, dy) == Max(sr + dy, MinStretch)

\* variant: newCenterTime is read before the stretchRatio is changed
zoomViewReadsBeforeZoom(tc, e) ==
  LET lastCenterTime == pixelToTime(tc, e.x)
      newCenterTime == pixelToTime(tc, e.x)
      tc1 == [tc EXCEPT !.stretchRatio = newStretchRatio(tc.stretchRatio, e.dy)]
      delta == RSub(newCenterTime, lastCenterTime)
  IN  [tc1 EXCEPT !.offset = RAdd(tc1.offset, RAdd(delta, pixelToTime(tc1, e.dx)))]

\* body of the views.forEach callback of CenteredZoomState.onMouseMove
zoomView(tc, e) ==
  LET lastCenterTime == pixelToTime(tc, e.x)
      tc1 == [tc EXCEPT !.stretchRatio = newStretchRatio(tc.stretchRatio, e.dy)]
      newCenterTime == pixelToTime(tc1, e.x)
      delta == RSub(newCenterTime, lastCenterTime)
  IN  [tc1 EXCEPT !.offset = RAdd(tc1.offset, RAdd(delta, pixelToTime(tc1, e.dx)))]

\* ----------------------------------------------------------------- call log
Rec(op, st, ev, hit) == [op |-> op, st |-> st, ev |-> ev, hit |-> hit]

Logged(m, op, st, ev, hit) == [m EXCEPT !.log = Append(@, Rec(op, st, ev, hit))]

\* ------------------------------------------------------- CenteredZoomState
onMouseDown(m, e) == [m EXCEPT !.mouseDown = TRUE]

\* variant: the mouseDown guard is missing
onMouseMoveNoGuard(m, e) ==
  Logged([m EXCEPT !.ctx = [v \in Views |-> zoomView(m.ctx[v], e)]],
         "update", CZ, e, NullHit)

onMouseMove(m, e) ==
  IF ~m.mouseDown
    THEN m
    ELSE Logged([m EXCEPT !.ctx = [v \in Views |-> zoomView(m.ctx[v], e)]],
                "update", CZ, e, NullHit)

\* variant: mouseup leaves the mouseDown flag set
onMouseUpKeepsDown(m, e) == m

onMouseUp(m, e) == [m EXCEPT !.mouseDown = FALSE]

\* variant: the switch has a default case that zooms
czHandleEventDefaultZoom(m, e) ==
  CASE e.type = "mousedown" -> onMouseDown(m, e)
    [] e.type = "mousemove" -> onMouseMove(m, e)
    [] e.type = "mouseup" -> onMouseUp(m, e)
    [] OTHER -> onMouseMove(m, e)

czHandleEvent(m, e) ==
  CASE e.type = "mousedown" -> onMouseDown(m, e)
    [] e.type = "mousemove" -> onMouseMove(m, e)
    [] e.type = "mouseup" -> onMouseUp(m, e)
    [] OTHER -> m

\* BaseState.enter() / BaseState.exit() as inherited by CenteredZoomState:
\* reset of the local gesture state.
resetGesture(m) == [m EXCEPT !.mouseDown = FALSE]

\* ---------------------------------------------------------------- Timeline
RECURSIVE _handleEvent(_, _, _), setState(_, _), deliver(_, _, _),
          enterState(_, _), exitState(_, _)

\* state.handleEvent(e, hitLayers) of the state s
stateHandleEvent(m, s, e, hit) ==
  LET m1 == Logged(m, "handleEvent", s, e, hit)
  IN  IF s = CZ THEN czHandleEvent(m1, e) ELSE m1

\* this.emit('event', e, hitLayers): the host's subscriber either ignores the
\* event (react = "ignore") or assigns Timeline.state = react.
emitEvent(m, e, hit, react) ==
  LET m1 == Logged(m, "emit", m._state, e, hit)
  IN  IF react = "ignore" THEN m1 ELSE setState(m1, react)

\* variant: the state is read before the event is emitted
handleEventStaleState(m, e, react) ==
  LET hitLayers == hitLayersOf(e)
      m1 == IF e.source = "surface"
              THEN Logged(m, "hitTest", m._state, e, hitLayers)
              ELSE m
      m2 == emitEvent(m1, e, hitLayers, react)
  IN  IF m._state = NULL
        THEN m2
        ELSE stateHandleEvent(m2, m._state, e, hitLayers)

\* variant: the event is emitted before the layers are hit-tested
handleEventEmitFirst(m, e, react) ==
  LET hitLayers == hitLayersOf(e)
      m1 == emitEvent(m, e, hitLayers, react)
      m2 == IF e.source = "surface"
              THEN Logged(m1, "hitTest", m1._state, e, hitLayers)
              ELSE m1
  IN  IF m2._state = NULL
        THEN m2
        ELSE stateHandleEvent(m2, m2._state, e, hitLayers)

\* variant: the early return for a missing state comes before the emit
handleEventReturnFirst(m, e, react) ==
  LET hitLayers == hitLayersOf(e)
      m1 == IF e.source = "surface"
              THEN Logged(m, "hitTest", m._state, e, hitLayers)
              ELSE m
  IN  IF m1._state = NULL
        THEN m1
        ELSE LET m2 == emitEvent(m1, e, hitLayers, react)
             IN  IF m2._state = NULL
                   THEN m2
                   ELSE stateHandleEvent(m2, m2._state, e, hitLayers)

_handleEvent(m, e, react) ==
  LET hitLayers == hitLayersOf(e)
      m1 == IF e.source = "surface"
              THEN Logged(m, "hitTest", m._state, e, hitLayers)
              ELSE m
      m2 == emitEvent(m1, e, hitLayers, react)
  IN  IF m2._state = NULL
        THEN m2
        ELSE stateHandleEvent(m2, m2._state, e, hitLayers)

\* createInteraction: interaction.on('event', (e) => this._handleEvent(e))
deliver(m, e, react) == _handleEvent(Logged(m, "deliver", m._state, e, NullHit), e, react)

exitState(m, s) ==
  LET m1 == Logged(m, "exit", s, NoEvent, NullHit)
      m2 == CASE s = CZ -> resetGesture(m1)
              [] s = StateA -> deliver(m1, HookEvent, "ignore")
              [] OTHER -> m1
  IN  Logged(m2, "exitReturn", s, NoEvent, NullHit)

enterState(m, s) ==
  LET m1 == Logged(m, "enter", s, NoEvent, NullHit)
      m2 == CASE s = CZ -> resetGesture(m1)
              [] s = StateB -> deliver(m1, HookEvent, "ignore")
              [] OTHER -> m1
  IN  Logged(m2, "enterReturn", s, NoEvent, NullHit)

\* variant: assigning the state that is already active is skipped
setStateSkipSame(m, state) ==
  LET m0 == Logged(m, "set", m._state, NoEvent, NullHit)
      same == m0._state = state
      m1 == IF m0._state # NULL /\ ~same THEN exitState(m0, m0._state) ELSE m0
      m2 == Logged([m1 EXCEPT !._state = state], "assign", state, NoEvent, NullHit)
      m3 == IF m2._state # NULL /\ ~same THEN enterState(m2, m2._state) ELSE m2
  IN  Logged(m3, "setReturn", state, NoEvent, NullHit)

\* variant: the first definition of the setter in the file (lines 119-123),
\* which calls this._state.enter() unconditionally
setStateEnterAlways(m, state) ==
  LET m0 == Logged(m, "set", m._state, NoEvent, NullHit)
      m1 == IF m0._state # NULL THEN exitState(m0, m0._state) ELSE m0
      m2 == Logged([m1 EXCEPT !._state = state], "assign", state, NoEvent, NullHit)
  IN  IF m2._state = NULL
        THEN [m2 EXCEPT !.error = "TypeError"]
        ELSE Logged(enterState(m2, m2._state), "setReturn", state, NoEvent, NullHit)

\* set state(state)
setState(m, state) ==
  LET m0 == Logged(m, "set", m._state, NoEvent, NullHit)
      m1 == IF m0._state # NULL THEN exitState(m0, m0._state) ELSE m0
      m2 == Logged([m1 EXCEPT !._state = state], "assign", state, NoEvent, NullHit)
      m3 == IF m2._state # NULL THEN enterState(m2, m2._state) ELSE m2
  IN  Logged(m3, "setReturn", state, NoEvent, NullHit)

\* -------------------------------------------------------- history variables
Indices(lg, op) == { i \in 1..Len(lg) : lg[i].op = op }

\* argument of the last assignment that has returned within lg[1..k], else dflt
AssignedAt(dflt, lg, k) ==
  LET rs == { i \in Indices(lg, "setReturn") : i <= k }
  IN  IF rs = {} THEN dflt ELSE lg[CHOOSE i \in rs : \A j \in rs : j <= i].st

\* the history record `gesture` after the calls lg[1..k], starting from g
RECURSIVE GestureAt(_, _, _)
GestureAt(g, lg, k) ==
  IF k = 0 THEN g
  ELSE LET p == GestureAt(g, lg, k - 1)
           r == lg[k]
       IN  CASE r.op = "exit" /\ r.st = CZ -> [p EXCEPT !.cut = p.cut \/ p.down]
             [] r.op = "enter" /\ r.st = CZ -> [p EXCEPT !.down = FALSE]
             [] r.op = "handleEvent" /\ r.st = CZ /\ r.ev.type = "mousedown" ->
                  [down |-> TRUE, cut |-> FALSE, pressed |-> TRUE]
             [] r.op = "handleEvent" /\ r.st = CZ /\ r.ev.type = "mouseup" ->
                  [p EXCEPT !.down = FALSE, !.pressed = FALSE]
             [] OTHER -> p

\* --------------------------------------------------- tracks, layers, groups
UNDEF == "undefined"
TrackObjs == {"tk1", "tk2", "tk3"}
TrackIds == {"main", "aux"}
\* this._trackById = {} inherits the properties of Object.prototype
ObjectPrototype == [constructor |-> "Object"]
IdKeys == TrackIds \cup DOMAIN ObjectPrototype
Layers == {"l1", "l2", "l3"}
Groups == {"default", "g"}

\* layer.timeContext: nothing, the timeline's root context, a context the host
\* bound to the layer before adding it, or the id-th LayerTimeContext that
\* addLayer created (parent: the constructor's argument)
NoCtx == [kind |-> "none", id |-> 0, parent |-> "none"]
RootCtx == [kind |-> "root", id |-> 0, parent |-> "none"]
HostCtx == [kind |-> "host", id |-> 0, parent |-> "root"]
LayerTimeContext(id, parent) == [kind |-> "ltc", id |-> id, parent |-> parent.kind]

NoGroup == [has |-> FALSE, layers |-> <<>>]
Group(ls) == [has |-> TRUE, layers |-> ls]

\* Array.prototype.indexOf: 0-based, -1 when absent
RECURSIVE IndexFrom(_, _, _)
IndexFrom(seq, x, i) ==
  IF i > Len(seq) THEN -1
  ELSE IF seq[i] = x THEN i - 1 ELSE IndexFrom(seq, x, i + 1)

indexOf(seq, x) == IndexFrom(seq, x, 1)

\* Array.prototype.splice(start, deleteCount), 0-based start
splice(seq, start, deleteCount) ==
  SubSeq(seq, 1, start) \o SubSeq(seq, start + deleteCount + 1, Len(seq))

\* ToInteger of a Layer object used as an array index: NaN, hence 0
LayerAsIndex == 0

\* Track.add(layer) / Track.remove(layer)
trackAdd(t, track, layer) == [t EXCEPT !.trackLayers[track] = Append(@, layer)]

trackRemove(t, track, layer) ==
  [t EXCEPT !.trackLayers[track] = splice(@, indexOf(@, layer), 1)]

\* this._trackById[trackId]: own property first, then the prototype's
getTrackById(t, trackId) ==
  IF t.trackById[trackId] # UNDEF THEN t.trackById[trackId]
  ELSE IF trackId \in DOMAIN ObjectPrototype THEN ObjectPrototype[trackId]
  ELSE UNDEF

\* variant: every layer without a context gets a new LayerTimeContext
addLayerNeverAxis(t, layer, trackOrTrackId, groupId, isAxis) ==
  LET track == IF trackOrTrackId \in IdKeys
                 THEN getTrackById(t, trackOrTrackId)
                 ELSE trackOrTrackId
      t1 == IF t.layerCtx[layer] = NoCtx
              THEN [t EXCEPT !.layerCtx[layer] =
                                LayerTimeContext(t.created + 1, RootCtx),
                             !.created = @ + 1]
              ELSE t
  IN  IF track \notin TrackObjs
        THEN [t1 EXCEPT !.error = "TypeError"]
        ELSE LET t2 == trackAdd(t1, track, layer)
                 t3 == IF ~t2.groupedLayers[groupId].has
                         THEN [t2 EXCEPT !.groupedLayers[groupId] = Group(<<>>)]
                         ELSE t2
             IN  [t3 EXCEPT !.groupedLayers[groupId].layers = Append(@, layer)]

\* addLayer(layer, trackOrTrackId, groupId = 'default', isAxis = false)
addLayer(t, layer, trackOrTrackId, groupId, isAxis) ==
  LET track == IF trackOrTrackId \in IdKeys
                 THEN getTrackById(t, trackOrTrackId)
                 ELSE trackOrTrackId
      t1 == IF t.layerCtx[layer] = NoCtx
              THEN IF isAxis
                     THEN [t EXCEPT !.layerCtx[layer] = RootCtx]
                     ELSE [t EXCEPT !.layerCtx[layer] =
                                       LayerTimeContext(t.created + 1, RootCtx),
                                    !.created = @ + 1]
              ELSE t
  IN  IF track \notin TrackObjs
        THEN [t1 EXCEPT !.error = "TypeError"]
        ELSE LET t2 == trackAdd(t1, track, layer)
                 t3 == IF ~t2.groupedLayers[groupId].has
                         THEN [t2 EXCEPT !.groupedLayers[groupId] = Group(<<>>)]
                         ELSE t2
             IN  [t3 EXCEPT !.groupedLayers[groupId].layers = Append(@, layer)]

\* this.tracks.forEach(...) of removeLayer, over the tracks from the k-th on
RECURSIVE removeFromTracks(_, _, _)
removeFromTracks(t, layer, k) ==
  IF k > Len(t.tracks) THEN t
  ELSE LET track == t.tracks[k]
           t1 == IF indexOf(t.trackLayers[track], layer) # -1
                   THEN trackRemove(t, track, layer)
                   ELSE t
       IN  removeFromTracks(t1, layer, k + 1)

\* body of the for-in loop of removeLayer for the group groupId
removeFromGroup(grp, layer) ==
  LET index == indexOf(grp.layers, layer)
      g1 == IF index # -1
              THEN [grp EXCEPT !.layers = splice(@, LayerAsIndex, 1)]
              ELSE grp
  IN  IF Len(g1.layers) = 0 THEN NoGroup ELSE g1

\* getLayersByGroup(groupId): the group, NoGroup for undefined
getLayersByGroup(t, groupId) == t.groupedLayers[groupId]

\* removeLayer(layer)
removeLayer(t, layer) ==
  LET t1 == removeFromTracks(t, layer, 1)
  IN  [t1 EXCEPT !.groupedLayers =
         [groupId \in Groups |->
            IF t1.groupedLayers[groupId].has
              THEN removeFromGroup(t1.groupedLayers[groupId], layer)
              ELSE NoGroup]]

\* ----------------------------------------------------- tracks and the DOM
\* The document the tracks live in: parentNode and the 'track' class of every
\* element.  svg1, svg2 and svg3 are the $svg of tk1, tk2 and tk3; svg2 and
\* svgX are nested inside svg1; svgX carries the class but is no track's $svg;
\* orphan is detached from the document.
NoNode == "nullNode"
Document == "document"

parentNode ==
  [document |-> NoNode, html |-> Document, body |-> "html", div |-> "body",
   svg1 |-> "body", rect1 |-> "svg1", svg2 |-> "rect1", rect2 |-> "svg2",
   svgX |-> "svg1", rectX |-> "svgX", svg3 |-> "body", orphan |-> NoNode]

Elements == DOMAIN parentNode \ {Document}

hasTrackClass(el) == el \in {"svg1", "svg2", "svg3", "svgX"}

svgOf == [tk1 |-> "svg1", tk2 |-> "svg2", tk3 |-> "svg3"]

\* variant: the loop goes on to the outermost element with the 'track' class
RECURSIVE outermostTrackElement(_)
outermostTrackElement(el) ==
  IF el = NoNode \/ el = Document THEN "TypeError"
  ELSE LET above == outermostTrackElement(parentNode[el])
       IN  IF above # "TypeError" THEN above
           ELSE IF hasTrackClass(el) THEN el ELSE "TypeError"

\* the do-while loop of getTrackFromDOMElement: the element it stops at, or
\* "TypeError" when $el.classList cannot be read (null, or the document)
RECURSIVE closestTrackElement(_)
closestTrackElement(el) ==
  IF el = NoNode \/ el = Document THEN "TypeError"
  ELSE IF hasTrackClass(el) THEN el
  ELSE closestTrackElement(parentNode[el])

\* the tracks.forEach of getTrackFromDOMElement, from the k-th track on
RECURSIVE trackOfSvg(_, _, _, _)
trackOfSvg(t, svg, k, track) ==
  IF k > Len(t.tracks) THEN track
  ELSE trackOfSvg(t, svg, k + 1,
                  IF svgOf[t.tracks[k]] = svg THEN t.tracks[k] ELSE track)

\* getTrackFromDOMElement($el)
getTrackFromDOMElement(t, el) ==
  LET svg == closestTrackElement(el)
  IN  IF svg = "TypeError"
        THEN [t EXCEPT !.error = "TypeError"]
        ELSE [t EXCEPT !.ret = trackOfSvg(t, svg, 1, NULL)]

\* createInteraction(this._surfaceCtor, track.$el)
createInteraction(t) == [t EXCEPT !.interactions = @ + 1]

\* add(track)
add(t, track) ==
  IF indexOf(t.tracks, track) # -1
    THEN [t EXCEPT !.error = "Error"]
    ELSE createInteraction([t EXCEPT !.tracks = Append(@, track)])

\* variant: the id is registered without looking for an earlier registration
createTrackOverwrite(t, track, trackId) ==
  LET t1 == IF trackId # NULL THEN [t EXCEPT !.trackById[trackId] = track] ELSE t
      t2 == add(t1, track)
  IN  IF t2.error # "none" THEN t2 ELSE [t2 EXCEPT !.ret = track]

\* createTrack($el, trackHeight, trackId = null); track is the new Track
createTrack(t, track, trackId) ==
  IF trackId # NULL /\ getTrackById(t, trackId) # UNDEF
    THEN [t EXCEPT !.error = "Error"]
    ELSE LET t1 == IF trackId # NULL
                     THEN [t EXCEPT !.trackById[trackId] = track]
                     ELSE t
             t2 == add(t1, track)
         IN  IF t2.error # "none" THEN t2 ELSE [t2 EXCEPT !.ret = track]

\* ------------------------------------------------------------------ actions
Machine ==
  [_state |-> _state, mouseDown |-> mouseDown, ctx |-> ctx, log |-> <<>>,
   error |-> "none"]

Commit(m) ==
  /\ _state' = m._state
  /\ mouseDown' = m.mouseDown
  /\ ctx' = m.ctx
  /\ log' = m.log
  /\ error' = m.error
  /\ assigned' = AssignedAt(assigned, m.log, Len(m.log))
  /\ gesture' = GestureAt(gesture, m.log, Len(m.log))
  /\ steps' = steps + 1
  /\ UNCHANGED <<timelineVars, root, call, ret, lineVars>>

\* new Timeline(): no state, no track, no group, default root context
NoCall == [op |-> "none", args |-> <<>>]
InitRoot == [offset |-> 0, zoom |-> 1, pixelsPerSecond |-> pixelsPerSecond]

\* a rendering context: minX and maxX in half pixels
RenderingContext(minX, maxX) == [minX |-> minX, maxX |-> maxX]

\* no Line shape has been rendered
NoLine ==
  /\ lineData = <<>>
  /\ renderingContext = RenderingContext(0, 0)
  /\ instructions = <<>>

InitDispatch ==
  /\ _state = NULL
  /\ mouseDown = FALSE
  /\ ctx = InitCtx
  /\ log = <<>>
  /\ error = "none"
  /\ assigned = NULL
  /\ gesture = [down |-> FALSE, cut |-> FALSE, pressed |-> FALSE]
  /\ steps = 0
  /\ call = NoCall
  /\ ret = UNDEF

\* the timeline the events are dispatched in: one track "main" that holds the
\* layers of LayerOrder, all in the default group
Init ==
  /\ InitDispatch
  /\ root = InitRoot
  /\ tracks = <<"tk1">>
  /\ trackById = [main |-> "tk1", aux |-> UNDEF, constructor |-> UNDEF]
  /\ trackLayers = [tk1 |-> LayerOrder, tk2 |-> <<>>, tk3 |-> <<>>]
  /\ groupedLayers = [default |-> Group(LayerOrder), g |-> NoGroup]
  /\ layerCtx = [l1 |-> LayerTimeContext(1, RootCtx),
                 l2 |-> LayerTimeContext(2, RootCtx),
                 l3 |-> RootCtx]
  /\ created = 2
  /\ interactions = 1
  /\ members = [default |-> {"l1", "l2", "l3"}, g |-> {}]
  /\ NoLine

\* host code: timeline.state = s
SetState ==
  /\ steps < MaxSteps
  /\ \E s \in States \cup {NULL} : Commit(setState(Machine, s))

\* what the host's 'event' subscriber may do with e: it switches the state
\* (tool selection) on mousedown and keydown only
Reactions(e) ==
  IF e.type \in {"mousedown", "keydown"}
    THEN {"ignore", NULL} \cup States
    ELSE {"ignore"}

\* an interaction module emits e; the host's 'event' subscriber reacts
Dispatch ==
  /\ steps < MaxSteps
  /\ \E e \in Events : \E react \in Reactions(e) :
       Commit(deliver(Machine, e, react))

Next == SetState \/ Dispatch

Spec == Init /\ [][Next]_vars

\* ------------------------------------------------- actions on the containers
Containers ==
  [tracks |-> tracks, trackById |-> trackById, groupedLayers |-> groupedLayers,
   trackLayers |-> trackLayers, layerCtx |-> layerCtx, created |-> created,
   interactions |-> interactions, error |-> "none", ret |-> UNDEF]

\* the history variable `members` after the call op(args) that ended in t
MembersAfter(t, op, args) ==
  CASE op = "addLayer" /\ t.error = "none" ->
         [members EXCEPT ![args[3]] = @ \cup {args[1]}]
    [] op = "removeLayer" ->
         [groupId \in Groups |-> members[groupId] \ {args[1]}]
    [] OTHER -> members

CommitCall(t, op, args) ==
  /\ tracks' = t.tracks
  /\ trackById' = t.trackById
  /\ groupedLayers' = t.groupedLayers
  /\ trackLayers' = t.trackLayers
  /\ layerCtx' = t.layerCtx
  /\ created' = t.created
  /\ interactions' = t.interactions
  /\ members' = MembersAfter(t, op, args)
  /\ error' = t.error
  /\ ret' = t.ret
  /\ call' = [op |-> op, args |-> args]
  /\ UNCHANGED <<dispatchVars, root, lineVars>>

Bool(b) == IF b THEN "true" ELSE "false"

\* a timeline with the tracks tk1 and tk2 (tk2 registered as "main"), no layer
\* added yet; the host has bound a time context of its own to l3
InitLayers ==
  /\ InitDispatch
  /\ root = InitRoot
  /\ tracks = <<"tk1", "tk2">>
  /\ trackById = [main |-> "tk2", aux |-> UNDEF, constructor |-> UNDEF]
  /\ trackLayers = [tk \in TrackObjs |-> <<>>]
  /\ groupedLayers = [groupId \in Groups |-> NoGroup]
  /\ layerCtx = [l1 |-> NoCtx, l2 |-> NoCtx, l3 |-> HostCtx]
  /\ created = 0
  /\ interactions = 2
  /\ members = [groupId \in Groups |-> {}]
  /\ NoLine

InSomeTrack(layer) == \E tk \in TrackObjs : indexOf(trackLayers[tk], layer) # -1

\* host code: timeline.addLayer(layer, trackOrTrackId, groupId, isAxis), for a
\* layer that is in no track
AddLayer ==
  /\ steps < MaxLayerOps
  /\ \E layer \in Layers, trackOrTrackId \in {"tk1", "tk2"} \cup TrackIds,
        groupId \in Groups, isAxis \in BOOLEAN :
       /\ ~InSomeTrack(layer)
       /\ steps' = steps + 1
       /\ CommitCall(addLayer(Containers, layer, trackOrTrackId, groupId, isAxis),
                     "addLayer", <<layer, trackOrTrackId, groupId, Bool(isAxis)>>)

\* host code: timeline.removeLayer(layer)
RemoveLayer ==
  /\ steps < MaxLayerOps
  /\ steps' = steps + 1
  /\ \E layer \in Layers :
       CommitCall(removeLayer(Containers, layer), "removeLayer", <<layer>>)

\* host code: timeline.getLayersByGroup(groupId)
GetLayersByGroup ==
  /\ \E groupId \in Groups :
       CommitCall([Containers EXCEPT !.ret = getLayersByGroup(Containers, groupId)],
                  "getLayersByGroup", <<groupId>>)
  /\ UNCHANGED steps

NextLayers == AddLayer \/ RemoveLayer \/ GetLayersByGroup

SpecLayers == InitLayers /\ [][NextLayers]_vars

\* new Timeline()
InitTracks ==
  /\ InitDispatch
  /\ root = InitRoot
  /\ tracks = <<>>
  /\ trackById = [trackId \in IdKeys |-> UNDEF]
  /\ trackLayers = [tk \in TrackObjs |-> <<>>]
  /\ groupedLayers = [groupId \in Groups |-> NoGroup]
  /\ layerCtx = [l \in Layers |-> NoCtx]
  /\ created = 0
  /\ interactions = 0
  /\ members = [groupId \in Groups |-> {}]
  /\ NoLine

\* host code: timeline.createTrack($el, trackHeight, trackId); the Track it
\* constructs is one that nothing refers to yet
CreateTrack ==
  /\ \E track \in TrackObjs, trackId \in IdKeys \cup {NULL} :
       /\ indexOf(tracks, track) = -1
       /\ CommitCall(createTrack(Containers, track, trackId),
                     "createTrack", <<trackId>>)
  /\ UNCHANGED steps

\* host code: timeline.add(track), with a Track of its own or one it already
\* got from createTrack
Add ==
  /\ \E track \in TrackObjs : CommitCall(add(Containers, track), "add", <<track>>)
  /\ UNCHANGED steps

\* host code: timeline.getTrackById(trackId)
GetTrackById ==
  /\ \E trackId \in IdKeys :
       CommitCall([Containers EXCEPT !.ret = getTrackById(Containers, trackId)],
                  "getTrackById", <<trackId>>)
  /\ UNCHANGED steps

\* host code: timeline.getTrackFromDOMElement($el)
GetTrackFromDOMElement ==
  /\ \E el \in Elements :
       CommitCall(getTrackFromDOMElement(Containers, el),
                  "getTrackFromDOMElement", <<el>>)
  /\ UNCHANGED steps

NextTracks == CreateTrack \/ Add \/ GetTrackById \/ GetTrackFromDOMElement

SpecTracks == InitTracks /\ [][NextTracks]_vars

\* ------------------------------------------------------ root time context
\* timeContext.timeToPixel(t) of the root context r
timeToPixel(r, t) == (t - r.offset) * r.pixelsPerSecond * r.zoom

\* set offset(value)
setOffset(r, value) == [r EXCEPT !.offset = value]

\* variant: the zoom setter writes pixelsPerSecond
setZoomAsPixelsPerSecond(r, value) == [r EXCEPT !.pixelsPerSecond = value]

\* set zoom(value)
setZoom(r, value) == [r EXCEPT !.zoom = value]

\* set pixelsPerSecond(value)
setPixelsPerSecond(r, value) == [r EXCEPT !.pixelsPerSecond = value]

Offsets == {-2, 0, 1, 5}
Zooms == {1, 2, 3}
PixelsPerSeconds == {50, pixelsPerSecond, 200}
Times == {0, 2, 3, 6, 9, 12}

\* the data of the Rect test and the rectangles it expects
RectData == <<[x |-> 0, width |-> 3], [x |-> 6, width |-> 6]>>
RectExpected == <<[left |-> 0, width |-> 50], [left |-> 100, width |-> 100]>>

CommitRoot(r, op, args, value) ==
  /\ root' = r
  /\ call' = [op |-> op, args |-> args]
  /\ ret' = value
  /\ UNCHANGED <<dispatchVars, timelineVars, error, steps, lineVars>>

\* host code: timeline.offset = value
SetOffset ==
  \E value \in Offsets : CommitRoot(setOffset(root, value), "setOffset", <<value>>, UNDEF)

\* host code: timeline.zoom = value
SetZoom ==
  \E value \in Zooms : CommitRoot(setZoom(root, value), "setZoom", <<value>>, UNDEF)

\* host code: timeline.pixelsPerSecond = value
SetPixelsPerSecond ==
  \E value \in PixelsPerSeconds :
    CommitRoot(setPixelsPerSecond(root, value), "setPixelsPerSecond", <<value>>, UNDEF)

\* host code: timeline.timeToPixel(t)
TimeToPixel ==
  \E t \in Times : CommitRoot(root, "timeToPixel", <<t>>, timeToPixel(root, t))

NextContext == SetOffset \/ SetZoom \/ SetPixelsPerSecond \/ TimeToPixel

SpecContext == InitTracks /\ [][NextContext]_vars

\* --------------------------------------------------------------- Line shape
\* Pixel coordinates are kept in half pixels.  A datum is [cx, cy].
HalfPixelsPerUnit == 3
LineHeight == 10

\* the accessors this.cx(datum) and this.cy(datum)
cx(datum) == datum.cx
cy(datum) == datum.cy

\* renderingContext.timeToPixel(t) and renderingContext.valueToPixel(v)
lineTimeToPixel(rc, t) == HalfPixelsPerUnit * t
lineValueToPixel(rc, v) == 2 * (LineHeight - v)

\* Math.floor of a number of half pixels, in half pixels
Floor(h) == 2 * (h \div 2)

\* data.slice(0) sorted with (a, b) => cx(a) < cx(b) ? -1 : 1: the copies of
\* data in ascending cx order; the order of data with equal cx is the engine's
sortedCopies(data) ==
  LET n == Len(data)
      perms == { p \in [1..n -> 1..n] : \A i, j \in 1..n : i # j => p[i] # p[j] }
      copies == { [k \in 1..n |-> data[p[k]]] : p \in perms }
  IN  { c \in copies : \A k \in 1..(n - 1) : ~(cx(c[k + 1]) < cx(c[k])) }

\* the for loop of Line.update from the iteration i (1-based) on
RECURSIVE lineLoop(_, _, _, _, _, _, _)
lineLoop(rc, data, i, nextX, minX, maxX, instr) ==
  IF i > Len(data) THEN instr
  ELSE LET x == nextX
           nextX1 == IF i + 1 <= Len(data)
                       THEN lineTimeToPixel(rc, cx(data[i + 1]))
                       ELSE nextX
       IN  IF nextX1 < minX
             THEN lineLoop(rc, data, i + 1, nextX1, minX, maxX, instr)
             ELSE LET y == lineValueToPixel(rc, cy(data[i])) - 1
                      instr1 == Append(instr, [x |-> x, y |-> y])
                  IN  IF x > maxX
                        THEN instr1
                        ELSE lineLoop(rc, data, i + 1, nextX1, minX, maxX, instr1)

\* variant: maxX is compared without Math.floor
lineUpdateNoFloor(rc, data, sorted) ==
  LET minX == Floor(rc.minX)
      maxX == rc.maxX
      instr == IF Len(sorted) > 0
                 THEN lineLoop(rc, sorted, 1, lineTimeToPixel(rc, cx(sorted[1])),
                               minX, maxX, <<>>)
                 ELSE <<>>
  IN  [data |-> data, renderingContext |-> rc, instructions |-> instr]

\* update(renderingContext, data), where sorted is the sorted copy of data:
\* the caller's array, the rendering context and the points of the path
lineUpdate(rc, data, sorted) ==
  LET minX == Floor(rc.minX)
      maxX == Floor(rc.maxX)
      instr == IF Len(sorted) > 0
                 THEN lineLoop(rc, sorted, 1, lineTimeToPixel(rc, cx(sorted[1])),
                               minX, maxX, <<>>)
                 ELSE <<>>
  IN  [data |-> data, renderingContext |-> rc, instructions |-> instr]

Cxs == {0, 1, 2, 3, 4}
Points == { [cx |-> c, cy |-> 0] : c \in Cxs } \cup { [cx |-> 2, cy |-> 1] }
DataArrays == UNION { [1..n -> Points] : n \in 0..MaxPoints }
RenderingContexts == { RenderingContext(a, b) : a \in {-1, 3, 4}, b \in {6, 9} }

\* a Line shape of a layer with the data and the rendering context of the host
InitLine ==
  /\ InitDispatch
  /\ root = InitRoot
  /\ tracks = <<>>
  /\ trackById = [trackId \in IdKeys |-> UNDEF]
  /\ trackLayers = [tk \in TrackObjs |-> <<>>]
  /\ groupedLayers = [groupId \in Groups |-> NoGroup]
  /\ layerCtx = [l \in Layers |-> NoCtx]
  /\ created = 0
  /\ interactions = 0
  /\ members = [groupId \in Groups |-> {}]
  /\ lineData \in DataArrays
  /\ renderingContext \in RenderingContexts
  /\ instructions = <<>>

\* the layer calls shape.update(renderingContext, data)
Update ==
  /\ \E sorted \in sortedCopies(lineData) :
       LET r == lineUpdate(renderingContext, lineData, sorted)
       IN  /\ lineData' = r.data
           /\ renderingContext' = r.renderingContext
           /\ instructions' = r.instructions
  /\ call' = [op |-> "update", args |-> <<>>]
  /\ UNCHANGED <<dispatchVars, timelineVars, root, error, steps, ret>>

\* the visible region moves: the next update gets another rendering context
Scroll ==
  /\ \E rc \in RenderingContexts : renderingContext' = rc
  /\ call' = [op |-> "scroll", args |-> <<>>]
  /\ UNCHANGED <<dispatchVars, timelineVars, root, error, steps, ret, lineData,
                 instructions>>

NextLine == Update \/ Scroll

SpecLine == InitLine /\ [][NextLine]_vars

\* =================================================================== claims
HookOps == {"exit", "exitReturn", "enter", "enterReturn"}

\* the return of the assignment that starts at lg[i] (assignments do not nest)
ReturnOf(lg, i) ==
  LET rs == { j \in Indices(lg, "setReturn") : j > i }
  IN  IF rs = {} THEN 0 ELSE CHOOSE j \in rs : \A j2 \in rs : j <= j2

\* the enter()/exit() calls and returns of lg[i..j], in order
HookCalls(lg, i, j) ==
  LET sub == SelectSeq(SubSeq(lg, i, j), LAMBDA r : r.op \in HookOps)
  IN  [k \in 1..Len(sub) |-> <<sub[k].op, sub[k].st>>]

Count(lg, op, e) == Cardinality({ i \in Indices(lg, op) : lg[i].ev = e })

\* C1: every assignment of a state calls exit() of the previously active state
\* once, lets it return, then calls enter() of the new state once; with no
\* previous state only enter() of the new state is called.
C1_ExitThenEnter ==
  \A i \in Indices(log, "set") :
    LET j == ReturnOf(log, i)
        prev == log[i].st
    IN  /\ j # 0
        /\ log[j].st # NULL =>
             HookCalls(log, i, j) =
               IF prev # NULL
                 THEN << <<"exit", prev>>, <<"exitReturn", prev>>,
                         <<"enter", log[j].st>>, <<"enterReturn", log[j].st>> >>
                 ELSE << <<"enter", log[j].st>>, <<"enterReturn", log[j].st>> >>

\* the active state was assigned again: its exit() and enter() both ran
C1_Witness ==
  \E i \in Indices(log, "set") :
    /\ log[i].st # NULL
    /\ ReturnOf(log, i) # 0
    /\ log[ReturnOf(log, i)].st = log[i].st
    /\ \E k \in Indices(log, "exit") : i < k /\ k < ReturnOf(log, i)

\* lg[k] happens while an assignment to Timeline.state is in progress
InSwitch(lg, k) ==
  \E i \in Indices(lg, "set") : i < k /\ (ReturnOf(lg, i) = 0 \/ k < ReturnOf(lg, i))

\* C2: an event dispatched after an assignment to Timeline.state has returned
\* (and before the next assignment begins) is passed to handleEvent of the
\* state given to that assignment, the most recent one that returned.
C2_RoutedToAssigned ==
  [][ \A k \in Indices(log', "handleEvent") :
        ~InSwitch(log', k) => log'[k].st = AssignedAt(assigned, log', k) ]_vars

\* a subscriber switched from one state to another and the event went on to
\* the new state
C2_Witness ==
  \E i \in Indices(log, "set"), k \in Indices(log, "handleEvent") :
    /\ log[i].st # NULL
    /\ ReturnOf(log, i) # 0 /\ ReturnOf(log, i) < k
    /\ log[k].st # log[i].st

\* C3: no event reaches handleEvent of a state whose exit() has started in a
\* switch that has not returned yet, or of a state that was assigned and whose
\* enter() has not returned yet.
C3_SwitchAtomic ==
  \A k \in Indices(log, "handleEvent") :
    /\ ~ \E i \in Indices(log, "exit") :
           /\ i < k /\ log[i].st = log[k].st
           /\ ~ \E j \in Indices(log, "setReturn") : i < j /\ j < k
    /\ ~ \E i \in Indices(log, "assign") :
           /\ i < k /\ log[i].st = log[k].st
           /\ ~ \E j \in Indices(log, "enterReturn") : i < j /\ j < k

\* C4: assigning null raises nothing and calls only exit() of the previous
\* state; while the state is null an event is emitted once and no state's
\* handleEvent is called with it.
C4_NullAssignment ==
  [][ /\ (\E i \in Indices(log', "assign") : log'[i].st = NULL) => error' = "none"
      /\ \A i \in Indices(log', "set") :
           LET j == ReturnOf(log', i)
               prev == log'[i].st
           IN  (j # 0 /\ log'[j].st = NULL) =>
                 HookCalls(log', i, j) =
                   IF prev # NULL
                     THEN << <<"exit", prev>>, <<"exitReturn", prev>> >>
                     ELSE << >>
      /\ (/\ log' # << >>
          /\ log'[1].op = "deliver"
          /\ AssignedAt(assigned, log', Len(log')) = NULL) =>
           /\ Count(log', "emit", log'[1].ev) = 1
           /\ Count(log', "handleEvent", log'[1].ev) = 0 ]_vars

\* a subscriber assigned null while CenteredZoomState was active: exit() ran,
\* the event was emitted and no state handled it
C4_Witness ==
  /\ _state = NULL
  /\ error = "none"
  /\ \E i \in Indices(log, "exit") : log[i].st = CZ
  /\ \E i \in Indices(log, "assign") : log[i].st = NULL
  /\ Indices(log, "emit") # {}
  /\ Indices(log, "handleEvent") = {}

\* first call of `op` with the event of lg[i] after lg[i], 0 if there is none
FirstAfter(lg, op, i) ==
  LET ks == { k \in Indices(lg, op) : k > i /\ lg[k].ev = lg[i].ev }
  IN  IF ks = {} THEN 0 ELSE CHOOSE k \in ks : \A k2 \in ks : k <= k2

\* C5 as stated: for every delivered event the emit comes first, then the hit
\* test (surface events only), then the call of the active state's handleEvent.
C5_EmitThenHitTest ==
  \A i \in Indices(log, "deliver") :
    LET em == FirstAfter(log, "emit", i)
        ht == FirstAfter(log, "hitTest", i)
        hd == FirstAfter(log, "handleEvent", i)
    IN  /\ em # 0
        /\ (log[i].ev.source = "surface") <=> (ht # 0)
        /\ ht # 0 => em < ht
        /\ hd # 0 => (em < hd /\ ht < hd)

\* C5 amended: for every delivered event the layers are hit-tested first
\* (surface events only), then the event is emitted with the hit layers, then
\* the same event and hit layers go to the active state's handleEvent.
C5_HitTestThenEmit ==
  \A i \in Indices(log, "deliver") :
    LET em == FirstAfter(log, "emit", i)
        ht == FirstAfter(log, "hitTest", i)
        hd == FirstAfter(log, "handleEvent", i)
    IN  /\ em # 0
        /\ (log[i].ev.source = "surface") <=> (ht # 0)
        /\ ht # 0 => (ht < em /\ log[em].hit = log[ht].hit)
        /\ hd # 0 => (em < hd /\ log[hd].hit = log[em].hit)

\* a surface event went through hit test, emit and the active state
C5_Witness ==
  \E i \in Indices(log, "deliver") :
    /\ FirstAfter(log, "hitTest", i) # 0
    /\ FirstAfter(log, "emit", i) # 0
    /\ FirstAfter(log, "handleEvent", i) # 0

EvSeq(lg, op) ==
  LET sub == SelectSeq(lg, LAMBDA r : r.op = op)
  IN  [k \in 1..Len(sub) |-> sub[k].ev]

\* C6: the events are emitted once each and in the order of their delivery,
\* with or without an active state; the state that is active when the event is
\* forwarded gets the emitted event and hit layers, once.
C6_EmittedOnceInOrder ==
  /\ EvSeq(log, "emit") = EvSeq(log, "deliver")
  /\ \A k \in Indices(log, "handleEvent") :
       \E j \in Indices(log, "emit") :
         j < k /\ log[j].ev = log[k].ev /\ log[j].hit = log[k].hit
  /\ Count(log, "handleEvent", HookEvent) = Count(log, "emit", HookEvent)
  /\ (log # << >> /\ log[1].op = "deliver") =>
       Count(log, "handleEvent", log[1].ev) = IF _state # NULL THEN 1 ELSE 0

\* an event that hit a layer was emitted and handled by the active state
C6_Witness ==
  /\ log # << >>
  /\ log[1].op = "deliver"
  /\ \E k \in Indices(log, "handleEvent") :
       log[k].ev = log[1].ev /\ log[k].hit.layers # << >>

NoLayerMatches(e) == \A n \in 1..Len(LayerOrder) : ~Hits(LayerOrder[n], e)

HitValues(lg) == Indices(lg, "emit") \cup Indices(lg, "handleEvent")

\* C7 as stated: the hit-layer value emitted and forwarded is an empty
\* collection when no layer matches and when the event is not a surface event.
C7_EmptyCollection ==
  \A k \in HitValues(log) :
    (log[k].ev.source # "surface" \/ NoLayerMatches(log[k].ev)) =>
      log[k].hit = ArrayHit(<< >>)

\* C7 amended: the value is an empty array for a surface event that matches no
\* layer, and null for an event that is not a surface event.
C7_EmptyOrNull ==
  \A k \in HitValues(log) :
    /\ (log[k].ev.source = "surface" /\ NoLayerMatches(log[k].ev)) =>
         log[k].hit = ArrayHit(<< >>)
    /\ log[k].ev.source # "surface" => log[k].hit = NullHit

\* a surface event outside every layer and a keyboard event were both emitted
C7_Witness ==
  /\ \E k \in Indices(log, "emit") :
       log[k].ev.source = "surface" /\ NoLayerMatches(log[k].ev)
  /\ \E k \in Indices(log, "emit") : log[k].ev.source = "keyboard"

\* C8: a mousemove with dx = 0 handled by CenteredZoomState leaves the time
\* under the pointer, pixelToTime(e.x), of every view as it was.
C8_CenterPreserved ==
  [][ \A k \in Indices(log', "handleEvent") :
        (log'[k].st = CZ /\ log'[k].ev.type = "mousemove" /\ log'[k].ev.dx = 0) =>
          \A v \in Views :
            pixelToTime(ctx'[v], log'[k].ev.x) = pixelToTime(ctx[v], log'[k].ev.x) ]_vars

\* C9: the stored stretchRatio of every view is at least 0.01.
C9_ZoomFloor == \A v \in Views : ctx[v].stretchRatio >= MinStretch

\* a zoom step with a large negative dy left a view at the floor
C9_Witness ==
  /\ \E k \in Indices(log, "update") : log[k].ev.dy = -10
  /\ \E v \in Views : ctx[v].stretchRatio = MinStretch

C11_TimeContextBinding ==
  [][call'.op = "addLayer" =>
       LET layer == call'.args[1]
           isAxis == call'.args[4] = "true"
           bound == layerCtx'[layer]
       IN  IF layerCtx[layer] # NoCtx
             THEN bound = layerCtx[layer]
             ELSE IF isAxis
               THEN bound = RootCtx
               ELSE /\ bound.kind = "ltc"
                    /\ bound.parent = "root"
                    /\ \A l \in Layers : layerCtx[l] # bound
                    /\ \A l \in Layers \ {layer} : layerCtx'[l] # bound]_vars

C11_Witness ==
  /\ call.op = "addLayer"
  /\ \E l \in Layers : layerCtx[l] = RootCtx
  /\ \E l \in Layers : layerCtx[l].kind = "ltc"
  /\ \E l \in Layers : layerCtx[l] = HostCtx /\ InSomeTrack(l)

\* C20: removeLayer(layer) removes exactly that layer: afterwards it is in no
\* group and in no track's layer list, and every group holds its other layers
\* in the same order as before.
C20_RemovesExactlyThatLayer ==
  [][call'.op = "removeLayer" =>
       LET layer == call'.args[1]
       IN  /\ \A i \in 1..Len(tracks) :
                indexOf(trackLayers'[tracks[i]], layer) = -1
           /\ \A groupId \in Groups :
                groupedLayers'[groupId].layers =
                  SelectSeq(groupedLayers[groupId].layers,
                            LAMBDA l : l # layer)]_vars

\* C12: createTrack with a trackId that is already registered, and add(track)
\* with a track already in the timeline, throw, and leave the track
\* collection, the id-to-track mapping and the Surface interactions as they
\* were before the call.
C12_MisuseThrowsAndChangesNothing ==
  [][(\/ /\ call'.op = "createTrack"
         /\ call'.args[1] # NULL
         /\ trackById[call'.args[1]] # UNDEF
      \/ /\ call'.op = "add"
         /\ indexOf(tracks, call'.args[1]) # -1)
     => /\ error' = "Error"
        /\ tracks' = tracks
        /\ trackById' = trackById
        /\ interactions' = interactions]_vars

C12_Witness ==
  /\ call.op = "createTrack"
  /\ error = "Error"
  /\ trackById[call.args[1]] \in TrackObjs
  /\ Len(tracks) = interactions
  /\ Len(tracks) < Cardinality(TrackObjs)

\* the element itself and its ancestors
RECURSIVE AncestorsOrSelf(_)
AncestorsOrSelf(el) ==
  IF el = NoNode THEN {} ELSE {el} \cup AncestorsOrSelf(parentNode[el])

TrackElementsAbove(el) == { x \in AncestorsOrSelf(el) : hasTrackClass(x) }

\* C13: a lookup that finds nothing returns an absent result and does not
\* throw: getTrackFromDOMElement for an element with no 'track' element among
\* itself and its ancestors returns null, getTrackById for an unregistered id
\* returns undefined.
C13_MissingLookupsReturnAbsent ==
  /\ (call.op = "getTrackFromDOMElement" /\ TrackElementsAbove(call.args[1]) = {})
       => (error = "none" /\ ret = NULL)
  /\ (call.op = "getTrackById" /\ trackById[call.args[1]] = UNDEF)
       => (error = "none" /\ ret = UNDEF)

\* C18: for an element with a 'track' element among itself and its ancestors,
\* getTrackFromDOMElement returns the track of the timeline whose $svg is the
\* nearest such element, or null when no track of the timeline has it; it
\* does not return the track of a farther one.
C18_NearestTrackElement ==
  (call.op = "getTrackFromDOMElement" /\ TrackElementsAbove(call.args[1]) # {})
    => LET marked == TrackElementsAbove(call.args[1])
           nearest == CHOOSE x \in marked : \A y \in marked : y \in AncestorsOrSelf(x)
           owners == { i \in 1..Len(tracks) : svgOf[tracks[i]] = nearest }
       IN  /\ error = "none"
           /\ IF owners = {} THEN ret = NULL
                ELSE \E i \in owners : ret = tracks[i]

C18_Witness ==
  /\ call = [op |-> "getTrackFromDOMElement", args |-> <<"rect2">>]
  /\ ret = "tk2"
  /\ indexOf(tracks, "tk1") # -1

RecognizedTypes == {"mousedown", "mousemove", "mouseup"}

\* C14: an event whose type is none of mousedown, mousemove, mouseup, handled
\* by CenteredZoomState (with no state switch in the same dispatch), raises no
\* error, leaves mouseDown and every time context unchanged and requests no
\* update.
C14_UnrecognizedTypeIgnored ==
  [][(/\ Indices(log', "set") = {}
      /\ \E i \in Indices(log', "handleEvent") :
            log'[i].st = CZ /\ log'[i].ev.type \notin RecognizedTypes)
     => /\ error' = "none"
        /\ mouseDown' = mouseDown
        /\ ctx' = ctx
        /\ Indices(log', "update") = {}]_vars

C14_Witness ==
  /\ Indices(log, "set") = {}
  /\ \E i \in Indices(log, "handleEvent") :
        log[i].st = CZ /\ log[i].ev.type = "wheel"
  /\ mouseDown

\* C16: the time contexts change, and an update is requested, only by a
\* mousemove that CenteredZoomState handles after a mousedown with no mouseup
\* in between; a mousemove before any mousedown or after the last mouseup
\* changes nothing.
C16_ZoomOnlyWhileDown ==
  [][/\ ctx' # ctx => Indices(log', "update") # {}
     /\ \A k \in Indices(log', "update") :
          /\ k > 1
          /\ log'[k - 1].op = "handleEvent"
          /\ log'[k - 1].st = CZ
          /\ log'[k - 1].ev.type = "mousemove"
          /\ GestureAt(gesture, log', k - 1).pressed]_vars

C16_Witness ==
  /\ ~gesture.pressed
  /\ ctx # InitCtx
  /\ Indices(log, "update") = {}
  /\ \E i \in Indices(log, "handleEvent") :
        log[i].st = CZ /\ log[i].ev.type = "mousemove"

\* x / (pixelsPerSecond * stretchRatio) + offset, stretchRatio in hundredths
TimeAt(sr, offset, x) == RAdd(Frac(Hundredths * x, pixelsPerSecond * sr), offset)

\* C17: a mousemove during a gesture updates each time context in this
\* order: lastCenterTime is read under the old stretchRatio; stretchRatio
\* becomes max(old + dy / 100, 0.01); newCenterTime and pixelToTime(e.dx) are
\* read under the new stretchRatio and the old offset; offset is increased
\* once by (newCenterTime - lastCenterTime) + pixelToTime(e.dx).
C17_ZoomThenOffset ==
  [][\A k \in Indices(log', "update") : \A v \in Views :
       LET e == log'[k].ev
           oldRatio == ctx[v].stretchRatio
           oldOffset == ctx[v].offset
           newRatio == IF oldRatio + e.dy > MinStretch
                         THEN oldRatio + e.dy ELSE MinStretch
           lastCenterTime == TimeAt(oldRatio, oldOffset, e.x)
           newCenterTime == TimeAt(newRatio, oldOffset, e.x)
           moved == TimeAt(newRatio, oldOffset, e.dx)
       IN  /\ ctx'[v].stretchRatio = newRatio
           /\ ctx'[v].offset =
                RAdd(oldOffset, RAdd(RSub(newCenterTime, lastCenterTime), moved))]_vars

C17_Witness ==
  \E k \in Indices(log, "update") :
    /\ log[k].ev.x # 0 /\ log[k].ev.dx # 0 /\ log[k].ev.dy # 0
    /\ \A v \in Views : ctx[v].stretchRatio > MinStretch

PositionIn(seq, x) == CHOOSE i \in 1..Len(seq) : seq[i] = x

\* C19 as stated: the hit layers are the timeline's layers whose rectangle
\* contains the pointer, edges included, in the timeline's layer order.
C19_ContainsEdgesIncluded ==
  \A k \in Indices(log, "hitTest") :
    log[k].hit.layers =
      SelectSeq(LayerOrder,
                LAMBDA l : /\ log[k].ev.clientX >= LayerBox[l].left
                           /\ log[k].ev.clientX <= LayerBox[l].right
                           /\ log[k].ev.clientY >= LayerBox[l].top
                           /\ log[k].ev.clientY <= LayerBox[l].bottom)

\* C19 amended: the hit layers are the hittable layers of the timeline whose
\* rectangle has the pointer strictly inside (a pointer on an edge is
\* outside), each once, in the timeline's layer order.
C19_HittableStrictlyInside ==
  \A k \in Indices(log, "hitTest") :
    LET r == log[k].hit.layers
        e == log[k].ev
    IN  /\ ~log[k].hit.isNull
        /\ \A i \in 1..Len(LayerOrder) :
             LET l == LayerOrder[i]
             IN  (\E j \in 1..Len(r) : r[j] = l)
                   <=> /\ LayerBox[l].hittable
                       /\ LayerBox[l].left < e.clientX /\ e.clientX < LayerBox[l].right
                       /\ LayerBox[l].top < e.clientY /\ e.clientY < LayerBox[l].bottom
        /\ \A i, j \in 1..Len(r) :
             i < j => PositionIn(LayerOrder, r[i]) < PositionIn(LayerOrder, r[j])

C19_Witness ==
  \E k \in Indices(log, "hitTest") :
    /\ log[k].ev.clientX = LayerBox["l1"].left
    /\ log[k].hit.layers = <<>>

C21_NoEmptyGroup ==
  /\ \A groupId \in Groups :
       groupedLayers[groupId].has => Len(groupedLayers[groupId].layers) >= 1
  /\ (call.op = "getLayersByGroup" /\ members[call.args[1]] = {})
       => ret = NoGroup

\* C22: addLayer with a track id that is not registered fails and leaves the
\* grouped-layers registry, every track's layer list and the layer's time
\* context as they were before the call.
C22_FailedAddLayerChangesNothing ==
  [][(/\ call'.op = "addLayer"
      /\ call'.args[2] \in TrackIds
      /\ trackById[call'.args[2]] = UNDEF)
     => /\ error' # "none"
        /\ groupedLayers' = groupedLayers
        /\ trackLayers' = trackLayers
        /\ layerCtx' = layerCtx]_vars

\* the point of the path that a datum is drawn at under the context rc
PointOf(rc, datum) ==
  [x |-> lineTimeToPixel(rc, cx(datum)), y |-> lineValueToPixel(rc, cy(datum)) - 1]

Occurrences(seq, v) == Cardinality({ k \in 1..Len(seq) : seq[k] = v })

\* the arrangements of the points of data in ascending x order
AscendingPoints(rc, data) ==
  LET n == Len(data)
  IN  { [k \in 1..n |-> PointOf(rc, data[p[k]])] :
          p \in { q \in [1..n -> 1..n] :
                    /\ \A i, j \in 1..n : i # j => q[i] # q[j]
                    /\ \A i, j \in 1..n :
                         i < j => cx(data[q[i]]) <= cx(data[q[j]]) } }

\* C23: Line.update emits a contiguous run of the data sorted by x: every
\* point with floor(minX) <= x <= floor(maxX) is emitted, at most one point
\* left of floor(minX) (the last one, when a point is not left of it) and at
\* most one point right of floor(maxX) (the first one) are emitted, in
\* ascending x order; the caller's array and the rendering context are not
\* modified.
C23_ContiguousVisibleRun ==
  [][call'.op = "update" =>
       LET rc == renderingContext
           n == Len(lineData)
           pts == [i \in 1..n |-> PointOf(rc, lineData[i])]
           minX == Floor(rc.minX)
           maxX == Floor(rc.maxX)
           out == instructions'
           left == { i \in 1..n : pts[i].x < minX }
           right == { i \in 1..n : pts[i].x > maxX }
       IN  /\ lineData' = lineData
           /\ renderingContext' = renderingContext
           /\ \E sorted \in AscendingPoints(rc, lineData) :
                \E a \in 1..(n + 1) : \E b \in (a - 1)..n :
                  out = SubSeq(sorted, a, b)
           /\ \A i \in 1..n :
                (minX <= pts[i].x /\ pts[i].x <= maxX)
                  => Occurrences(out, pts[i]) = Occurrences(pts, pts[i])
           /\ Cardinality({ k \in 1..Len(out) : out[k].x < minX }) <= 1
           /\ Cardinality({ k \in 1..Len(out) : out[k].x > maxX }) <= 1
           /\ \A k \in 1..(Len(out) - 1) : out[k].x <= out[k + 1].x
           /\ (left # {} /\ left # 1..n)
                => \E k \in 1..Len(out) :
                     /\ out[k].x < minX
                     /\ \A i \in left : pts[i].x <= out[k].x
           /\ right # {}
                => \E k \in 1..Len(out) :
                     /\ out[k].x > maxX
                     /\ \A i \in right : out[k].x <= pts[i].x]_vars

C23_Witness ==
  /\ call.op = "update"
  /\ Len(lineData) = MaxPoints
  /\ Len(instructions) = 2
  /\ cx(lineData[1]) > cx(lineData[2])
  /\ instructions[1].x <= Floor(renderingContext.maxX)
  /\ instructions[2].x > Floor(renderingContext.maxX)
  /\ instructions[2].x = renderingContext.maxX
  /\ \E i \in 1..Len(lineData) :
        lineTimeToPixel(renderingContext, cx(lineData[i])) > renderingContext.maxX

====
